---- MODULE Spec2Model ----
(***************************************************************************)
(* Voice-GenAI-Tool: the request handlers of app.py and the background     *)
(* tasks they enqueue.                                                     *)
(*                                                                         *)
(* A request is one invocation of an endpoint handler.  A handler runs     *)
(* atomically between two awaits; every await of a backend call is a       *)
(* suspension point at which other requests and background tasks           *)
(* interleave.  The backends (SpeechProcessor, ConversationEngine) are     *)
(* external: a call either raises or returns a result, chosen by the       *)
(* environment.  A result dictionary is a function whose domain is the set *)
(* of keys the backend supplied.  The conversation engine keeps the        *)
(* contexts of the conversations; its source is not part of app.py, and    *)
(* its store is modelled after the specification of the                    *)
(* ConversationContextStore.                                               *)
(***************************************************************************)
EXTENDS Integers, Sequences, FiniteSets, TLC

VARIABLES
    pc,                     \* request -> position of its handler
    endpoint,               \* request -> endpoint that handles it
    request,                \* request -> the inputs of the request
    transcription,          \* request -> result of transcribe_audio (local)
    conversation_response,  \* request -> result of process_conversation (local)
    audio_path,             \* request -> path returned by synthesize_speech (local)
    conv_args,              \* request -> keyword arguments given to process_conversation
    synth_args,             \* request -> keyword arguments given to synthesize_speech
    bg,                     \* request -> the tasks added to its BackgroundTasks
    response,               \* request -> the response sent to the client
    log,                    \* request -> the backend events of the request, in order
    files,                  \* the audio files that exist on disk
    age,                    \* request -> seconds since its response was returned
    store,                  \* conversation id -> history of the conversation
    lifecycle,              \* phase of the application and its lifecycle calls, in order
    services,               \* request -> the "services" dict health_check builds (local)
    process,                \* the run of main.py: its inputs, position, calls and exit
    config                  \* the call of get_config: its inputs and its outcome

\* The state of the request handlers and of their background tasks
appVars == <<pc, endpoint, request, transcription, conversation_response,
             audio_path, conv_args, synth_args, bg, response, log, files, age,
             store>>

\* What the handlers of the four POST endpoints and the tasks never touch
otherVars == <<lifecycle, services, process, config>>

vars == <<appVars, otherVars>>

----------------------------------------------------------------------------
(* Bounds of the model *)

NumReqs == 2
TickStep == 150

(* Program constants *)

CleanupDelay == 300
STATUS_OK == 200
STATUS_BAD_REQUEST == 400
STATUS_ERROR == 500

\* Exit statuses of main.py: sys.exit(1), and 0 when main() returns
EXIT_FAILURE == 1

EXIT_SUCCESS == 0

\* The confidence the conversation endpoint answers with when the engine
\* supplies none: 0.95, in hundredths
DefaultConfidence == 95

Reqs == 1..NumReqs

None == "None"

----------------------------------------------------------------------------
(* Python dictionaries *)

EmptyDict == [k \in {} |-> None]

HasKey(d, k) == k \in DOMAIN d

Get(d, k, default) == IF k \in DOMAIN d THEN d[k] ELSE default

Without(d, k) == [x \in (DOMAIN d) \ {k} |-> d[x]]

HasKeys(d, ks) == ks \subseteq DOMAIN d

Min(a, b) == IF a < b THEN a ELSE b

----------------------------------------------------------------------------
(* The inputs and the backends' possible results *)

\* UploadFile.content_type: <<type, subtype>>, or <<>> when the part has none
NoContentType == <<>>

ContentTypes == {<<"audio", "wav">>, <<"text", "plain">>, NoContentType}

\* str.startswith('audio/')
StartsWithAudio(ct) == ct[1] = "audio"

NoPath == [dir |-> "", name |-> ""]

Paths == {[dir |-> "static/audio", name |-> "a.wav"],
          [dir |-> "temp", name |-> "b.wav"]}

\* Path(p).name
PathName(p) == p.name

FullTranscription ==
    [text |-> "hello", confidence |-> 90, processing_time |-> 12, language |-> "en"]

TranscribeResults ==
    {FullTranscription} \cup
    {Without(FullTranscription, k) : k \in DOMAIN FullTranscription}

\* The keys of a conversation result; the engine fills in context and
\* conversation_id from its store (see Conversed)
FullConversation ==
    [response |-> "reply", context |-> "ctx1", conversation_id |-> "c1",
     confidence |-> 88, processing_time |-> 7]

ConversationResults ==
    {FullConversation} \cup
    {Without(FullConversation, k) : k \in DOMAIN FullConversation}

\* VoiceRequest bodies: a field the client left out is None; speeds are
\* written as decimal strings
VoiceRequests ==
    {[text |-> "Hello", voice |-> None, language |-> None, speed |-> None],
     [text |-> "Hello", voice |-> "alice", language |-> "fr", speed |-> "1.5"],
     [text |-> "Hello", voice |-> "", language |-> "fr", speed |-> "0.0"]}

\* ConversationRequest bodies
ConversationRequests ==
    {[message |-> "hi", context |-> None, user_id |-> "u1", conversation_id |-> None],
     [message |-> "hi", context |-> "ctx0", user_id |-> "u1", conversation_id |-> "c1"]}

\* ConversationRequest bodies of a client that passes back the id of a
\* conversation the engine knows
FollowUps(st) ==
    {[message |-> "hi", context |-> "ctx0", user_id |-> "u1", conversation_id |-> id] :
        id \in DOMAIN st}

\* Python's "x or default": None, the empty string and zero are falsy
Falsy == {None, "", "0.0"}

Or(x, default) == IF x \in Falsy THEN default ELSE x

NoArgs == EmptyDict

NoResponse == [status |-> 0, body |-> EmptyDict]

----------------------------------------------------------------------------
(* The conversation engine's context store: conversation id -> history, the *)
(* ordered sequence of the turns of the conversation.  A turn of a          *)
(* conversation reads the history of its id, appends itself and writes the  *)
(* history back; turns on one id are serialized, so that is one step.       *)

NoStore == [id \in {} |-> <<>>]

\* The ids the engine generates, in the order it generates them
GeneratedIds == <<"g1", "g2", "g3", "g4">>

\* Faulty variant of NewId: the generator repeats itself
NewId_Repeated(st) == GeneratedIds[1]

\* A freshly generated id: the first one that was never issued or used
NewId(st) ==
    GeneratedIds[CHOOSE n \in 1..Len(GeneratedIds) :
                    /\ GeneratedIds[n] \notin DOMAIN st
                    /\ \A m \in 1..(n - 1) : GeneratedIds[m] \in DOMAIN st]

\* The id of the conversation a call belongs to: the one passed in, or a
\* new one when the caller passed none
ConversationId(args, st) ==
    IF Get(args, "conversation_id", None) # None
    THEN args.conversation_id
    ELSE NewId(st)

History(st, id) == IF id \in DOMAIN st THEN st[id] ELSE <<>>

\* The history entry of the call of request r
Turn(r, args) == [request |-> r, user_id |-> args.user_id, message |-> args.message]

Put(st, id, h) == [k \in DOMAIN st \cup {id} |-> IF k = id THEN h ELSE st[k]]

\* Faulty variant of Updated: the written context is built without the stored
\* history, the last write wins
Updated_LastWriteWins(st, id, t) == Put(st, id, <<t>>)

\* The store after the turn t of conversation id
Updated(st, id, t) == Put(st, id, Append(History(st, id), t))

\* The store after the call of request r has returned
StoreAfter(r) ==
    Updated(store, ConversationId(conv_args[r], store), Turn(r, conv_args[r]))

\* The result the engine returns to request r, with the keys of result: the
\* context is the updated history, the conversation_id the id of the
\* conversation
Conversed(r, result) ==
    [k \in DOMAIN result |->
        CASE k = "context" -> StoreAfter(r)[ConversationId(conv_args[r], store)]
          [] k = "conversation_id" -> ConversationId(conv_args[r], store)
          [] OTHER -> result[k]]

----------------------------------------------------------------------------
(* Initial state: the module is imported and its components are constructed, *)
(* the server has not started; no request has arrived, no artifact exists    *)

\* The application before its startup event
Created == [phase |-> "created", calls |-> <<>>]

\* No run of main.py
NoProcess == [pc |-> "none"]

\* No call of get_config
NoCall == [pc |-> "none"]


Constructed ==
    /\ pc = [r \in Reqs |-> "idle"]
    /\ endpoint = [r \in Reqs |-> None]
    /\ request = [r \in Reqs |-> EmptyDict]
    /\ transcription = [r \in Reqs |-> EmptyDict]
    /\ conversation_response = [r \in Reqs |-> EmptyDict]
    /\ audio_path = [r \in Reqs |-> NoPath]
    /\ conv_args = [r \in Reqs |-> NoArgs]
    /\ synth_args = [r \in Reqs |-> NoArgs]
    /\ bg = [r \in Reqs |-> <<>>]
    /\ response = [r \in Reqs |-> NoResponse]
    /\ log = [r \in Reqs |-> <<>>]
    /\ files = {}
    /\ age = [r \in Reqs |-> 0]
    /\ store = NoStore
    /\ lifecycle = Created
    /\ services = [r \in Reqs |-> EmptyDict]

\* app.py is imported by a server; main.py and get_config are not running
Init ==
    /\ Constructed
    /\ process = NoProcess
    /\ config = NoCall

-----------------------------------------------------------------------------
(* Building blocks of the handlers *)

\* Requests are interchangeable: they are numbered in their order of arrival.
Arrives(r) ==
    /\ lifecycle.phase = "serving"
    /\ pc[r] = "idle"
    /\ \A q \in Reqs : q < r => pc[q] # "idle"

Logged(r, events) == log' = [log EXCEPT ![r] = @ \o events]

\* background_tasks.add_task(fn, arg)
Task(fn, arg) == [fn |-> fn, arg |-> arg, st |-> "pending", slept |-> 0, result |-> None]

AddTask(r, fn, arg) == bg' = [bg EXCEPT ![r] = Append(@, Task(fn, arg))]

\* raise HTTPException(status_code=500, detail=f"Processing failed: {str(e)}")
FailureResponse(e) ==
    [status |-> STATUS_ERROR, body |-> [detail |-> <<"Processing failed", e>>]]

\* The handler is left, by return or by raise: its local variables are gone
Returns(r, resp) ==
    /\ response' = [response EXCEPT ![r] = resp]
    /\ pc' = [pc EXCEPT ![r] = "done"]
    /\ transcription' = [transcription EXCEPT ![r] = EmptyDict]
    /\ conversation_response' = [conversation_response EXCEPT ![r] = EmptyDict]
    /\ audio_path' = [audio_path EXCEPT ![r] = NoPath]

\* The handler goes on to its next await
Awaits(r, stage) ==
    /\ pc' = [pc EXCEPT ![r] = stage]
    /\ UNCHANGED response

----------------------------------------------------------------------------
(* POST /api/v1/voice-conversation *)

\* Faulty variant of voice_conversation_except: the failure response carries
\* the transcript obtained so far
voice_conversation_except_Partial(r, e) ==
    Returns(r, [status |-> STATUS_ERROR,
                body |-> [detail |-> <<"Processing failed", e>>,
                          transcription |-> Get(transcription[r], "text", None)]])

\* except Exception as e: ... raise HTTPException(500)
voice_conversation_except(r, e) == Returns(r, FailureResponse(e))

\* Faulty variant of voice_conversation_body: the transcript is echoed as the
\* reply
voice_conversation_body_Echo(t, c, path) ==
    [transcription |-> t["text"],
     ai_response |-> t["text"],
     audio_url |-> <<"/static/audio/", PathName(path)>>,
     processing_time |-> [transcription |-> t["processing_time"],
                          ai_processing |-> c["processing_time"]]]

\* The body returned on success
voice_conversation_body(t, c, path) ==
    [transcription |-> t["text"],
     ai_response |-> c["response"],
     audio_url |-> <<"/static/audio/", PathName(path)>>,
     processing_time |-> [transcription |-> t["processing_time"],
                          ai_processing |-> c["processing_time"]]]

\* Entry of the handler, up to the await of transcribe_audio
voice_conversation(r, ct) ==
    /\ Arrives(r)
    /\ endpoint' = [endpoint EXCEPT ![r] = "voice-conversation"]
    /\ request' = [request EXCEPT ![r] = [content_type |-> ct]]
    /\ Logged(r, << <<"transcribe", "call">> >>)
    /\ Awaits(r, "transcribing")
    /\ UNCHANGED <<transcription, conversation_response, audio_path, conv_args,
                   synth_args, bg, files, age, store, otherVars>>

\* Faulty variant of voice_transcribe_failed: the error is swallowed and the
\* handler goes on to process_conversation
voice_transcribe_failed_Swallowed(r) ==
    /\ Logged(r, << <<"transcribe", "fail">>, <<"converse", "call">> >>)
    /\ Awaits(r, "conversing")
    /\ UNCHANGED <<transcription, conversation_response, audio_path, conv_args>>

\* Faulty variant of voice_transcribe_failed: the call is tried again
voice_transcribe_failed_Retried(r) ==
    /\ Logged(r, << <<"transcribe", "fail">>, <<"transcribe", "call">> >>)
    /\ Len(log[r]) < 4
    /\ Awaits(r, "transcribing")
    /\ UNCHANGED <<transcription, conversation_response, audio_path, conv_args>>

\* transcribe_audio raises
voice_transcribe_failed(r) ==
    /\ Logged(r, << <<"transcribe", "fail">> >>)
    /\ voice_conversation_except(r, "BackendError")
    /\ UNCHANGED conv_args

\* Faulty variant of voice_transcribe_returned: steps 2 and 3 are swapped, the
\* audio is synthesized before the conversation engine is asked
voice_transcribe_returned_Swapped(r, result) ==
    /\ transcription' = [transcription EXCEPT ![r] = result]
    /\ Logged(r, << <<"transcribe", "ok">>, <<"synthesize", "call">> >>)
    /\ Awaits(r, "synthesizing")
    /\ UNCHANGED <<conversation_response, audio_path, conv_args>>

\* Faulty variant of voice_transcribe_returned: the handler keeps one
\* conversation for all voice requests and passes its id
voice_transcribe_returned_Carried(r, result) ==
    \/ /\ ~HasKey(result, "text")
       /\ Logged(r, << <<"transcribe", "ok">> >>)
       /\ voice_conversation_except(r, "KeyError")
       /\ UNCHANGED conv_args
    \/ /\ HasKey(result, "text")
       /\ transcription' = [transcription EXCEPT ![r] = result]
       /\ conv_args' = [conv_args EXCEPT ![r] =
              [message |-> result["text"], context |-> EmptyDict,
               user_id |-> "voice_user", conversation_id |-> "voice"]]
       /\ Logged(r, << <<"transcribe", "ok">>, <<"converse", "call">> >>)
       /\ Awaits(r, "conversing")
       /\ UNCHANGED <<conversation_response, audio_path>>

\* transcribe_audio returns: process_conversation is called with its text
voice_transcribe_returned(r, result) ==
    \/ /\ ~HasKey(result, "text")
       /\ Logged(r, << <<"transcribe", "ok">> >>)
       /\ voice_conversation_except(r, "KeyError")
       /\ UNCHANGED conv_args
    \/ /\ HasKey(result, "text")
       /\ transcription' = [transcription EXCEPT ![r] = result]
       /\ conv_args' = [conv_args EXCEPT ![r] =
              [message |-> result["text"], context |-> EmptyDict,
               user_id |-> "voice_user"]]
       /\ Logged(r, << <<"transcribe", "ok">>, <<"converse", "call">> >>)
       /\ Awaits(r, "conversing")
       /\ UNCHANGED <<conversation_response, audio_path>>

\* Step 1 of the handler ends
voice_transcribed(r, ok, result) ==
    /\ pc[r] = "transcribing"
    /\ endpoint[r] = "voice-conversation"
    /\ IF ok THEN voice_transcribe_returned(r, result)
             ELSE voice_transcribe_failed(r)
    /\ UNCHANGED <<endpoint, request, synth_args, bg, files, age, store, otherVars>>

\* process_conversation raises
voice_converse_failed(r) ==
    /\ Logged(r, << <<"converse", "fail">> >>)
    /\ voice_conversation_except(r, "BackendError")
    /\ UNCHANGED synth_args

\* process_conversation returns: synthesize_speech is called with its reply
voice_converse_returned(r, result) ==
    \/ /\ ~HasKey(result, "response")
       /\ Logged(r, << <<"converse", "ok">> >>)
       /\ voice_conversation_except(r, "KeyError")
       /\ UNCHANGED synth_args
    \/ /\ HasKey(result, "response")
       /\ conversation_response' = [conversation_response EXCEPT ![r] = result]
       /\ synth_args' = [synth_args EXCEPT ![r] =
              [text |-> result["response"], voice |-> "default",
               language |-> "en"]]
       /\ Logged(r, << <<"converse", "ok">>, <<"synthesize", "call">> >>)
       /\ Awaits(r, "synthesizing")
       /\ UNCHANGED <<transcription, audio_path>>

\* Step 2 of the handler ends
voice_conversed(r, ok, result) ==
    /\ pc[r] = "conversing"
    /\ endpoint[r] = "voice-conversation"
    /\ IF ok THEN /\ voice_converse_returned(r, Conversed(r, result))
                  /\ store' = StoreAfter(r)
             ELSE /\ voice_converse_failed(r)
                  /\ UNCHANGED store
    /\ UNCHANGED <<endpoint, request, conv_args, bg, files, age, otherVars>>

\* synthesize_speech raises
voice_synthesize_failed(r) ==
    /\ Logged(r, << <<"synthesize", "fail">> >>)
    /\ voice_conversation_except(r, "BackendError")
    /\ UNCHANGED <<bg, files>>

\* The tasks the handler adds once the audio is synthesized
voice_conversation_tasks(r, path) == AddTask(r, "cleanup_temp_file", path)

\* synthesize_speech returns: the background work is added, then the response
\* body is built
voice_synthesize_returned(r, path) ==
    /\ files' = files \cup {path}
    /\ Logged(r, << <<"synthesize", "ok">> >>)
    /\ voice_conversation_tasks(r, path)
    /\ IF /\ HasKey(transcription[r], "processing_time")
          /\ HasKey(conversation_response[r], "processing_time")
       THEN Returns(r, [status |-> STATUS_OK,
                        body |-> voice_conversation_body(
                            transcription[r], conversation_response[r], path)])
       ELSE voice_conversation_except(r, "KeyError")

\* Step 3 of the handler ends
voice_synthesized(r, ok, path) ==
    /\ pc[r] = "synthesizing"
    /\ endpoint[r] = "voice-conversation"
    /\ IF ok THEN voice_synthesize_returned(r, path)
             ELSE voice_synthesize_failed(r)
    /\ UNCHANGED <<endpoint, request, conv_args, synth_args, age, store, otherVars>>

----------------------------------------------------------------------------
(* POST /api/v1/speech-to-text *)

speech_to_text_except(r, e) == Returns(r, FailureResponse(e))

\* Faulty variant of speech_to_text_validate: the content type is not looked at
speech_to_text_validate_Skipped(r, ct) ==
    /\ Logged(r, << <<"transcribe", "call">> >>)
    /\ Awaits(r, "transcribing")
    /\ UNCHANGED <<transcription, conversation_response, audio_path>>

\* Validate audio file, then call transcribe_audio.  The check sits inside the
\* try block, so the HTTPException(400) it raises is caught by
\* "except Exception"
speech_to_text_validate(r, ct) ==
    \/ /\ ct = NoContentType
       /\ speech_to_text_except(r, "AttributeError")
       /\ UNCHANGED log
    \/ /\ ct # NoContentType
       /\ ~StartsWithAudio(ct)
       /\ speech_to_text_except(r, "HTTPException(400)")
       /\ UNCHANGED log
    \/ /\ ct # NoContentType
       /\ StartsWithAudio(ct)
       /\ Logged(r, << <<"transcribe", "call">> >>)
       /\ Awaits(r, "transcribing")
       /\ UNCHANGED <<transcription, conversation_response, audio_path>>

\* Entry of the handler, up to the await of transcribe_audio
speech_to_text(r, ct) ==
    /\ Arrives(r)
    /\ endpoint' = [endpoint EXCEPT ![r] = "speech-to-text"]
    /\ request' = [request EXCEPT ![r] = [content_type |-> ct]]
    /\ speech_to_text_validate(r, ct)
    /\ UNCHANGED <<conv_args, synth_args, bg, files, age, store, otherVars>>

\* transcribe_audio raises
speech_to_text_failed(r) ==
    /\ Logged(r, << <<"transcribe", "fail">> >>)
    /\ speech_to_text_except(r, "BackendError")
    /\ UNCHANGED bg

\* Faulty variant of speech_to_text_returned: the handler answers without
\* adding the analytics task
speech_to_text_returned_Unlogged(r, result) ==
    /\ Logged(r, << <<"transcribe", "ok">> >>)
    /\ UNCHANGED bg
    /\ IF HasKeys(result, {"text", "confidence", "processing_time"})
       THEN Returns(r, [status |-> STATUS_OK,
                        body |-> [text |-> result["text"],
                                  confidence |-> result["confidence"],
                                  processing_time |-> result["processing_time"],
                                  language |-> Get(result, "language",
                                                   "auto-detected")]])
       ELSE speech_to_text_except(r, "KeyError")

\* transcribe_audio returns: the analytics task is added, then the
\* VoiceResponse is built
speech_to_text_returned(r, result) ==
    /\ Logged(r, << <<"transcribe", "ok">> >>)
    /\ AddTask(r, "log_usage_analytics",
               [service |-> "speech-to-text",
                confidence |-> Get(result, "confidence", 0)])
    /\ IF HasKeys(result, {"text", "confidence", "processing_time"})
       THEN Returns(r, [status |-> STATUS_OK,
                        body |-> [text |-> result["text"],
                                  confidence |-> result["confidence"],
                                  processing_time |-> result["processing_time"],
                                  language |-> Get(result, "language",
                                                   "auto-detected")]])
       ELSE speech_to_text_except(r, "KeyError")

\* The await of transcribe_audio ends
speech_to_text_transcribed(r, ok, result) ==
    /\ pc[r] = "transcribing"
    /\ endpoint[r] = "speech-to-text"
    /\ IF ok THEN speech_to_text_returned(r, result)
             ELSE speech_to_text_failed(r)
    /\ UNCHANGED <<endpoint, request, conv_args, synth_args, files, age, store, otherVars>>

----------------------------------------------------------------------------
(* POST /api/v1/text-to-speech *)

text_to_speech_except(r, e) == Returns(r, FailureResponse(e))

\* Entry of the handler, up to the await of synthesize_speech
text_to_speech(r, req) ==
    /\ Arrives(r)
    /\ endpoint' = [endpoint EXCEPT ![r] = "text-to-speech"]
    /\ request' = [request EXCEPT ![r] = req]
    /\ synth_args' = [synth_args EXCEPT ![r] =
           [text |-> req.text,
            voice |-> Or(req.voice, "default"),
            language |-> Or(req.language, "en"),
            speed |-> Or(req.speed, "1.0")]]
    /\ Logged(r, << <<"synthesize", "call">> >>)
    /\ Awaits(r, "synthesizing")
    /\ UNCHANGED <<transcription, conversation_response, audio_path, conv_args,
                   bg, files, age, store, otherVars>>

\* synthesize_speech raises
text_to_speech_failed(r) ==
    /\ Logged(r, << <<"synthesize", "fail">> >>)
    /\ text_to_speech_except(r, "BackendError")
    /\ UNCHANGED <<bg, files>>

\* Faulty variant of text_to_speech_returned: the handler awaits
\* cleanup_temp_file itself before it answers
text_to_speech_returned_Awaited(r, path) ==
    /\ files' = files \cup {path}
    /\ Logged(r, << <<"synthesize", "ok">> >>)
    /\ AddTask(r, "cleanup_temp_file", path)
    /\ Awaits(r, "cleaning")
    /\ UNCHANGED <<transcription, conversation_response, audio_path>>

\* synthesize_speech returns: the cleanup task is added and the file returned
text_to_speech_returned(r, path) ==
    /\ files' = files \cup {path}
    /\ Logged(r, << <<"synthesize", "ok">> >>)
    /\ AddTask(r, "cleanup_temp_file", path)
    /\ Returns(r, [status |-> STATUS_OK,
                   body |-> [path |-> path, media_type |-> "audio/wav"]])

\* The await of synthesize_speech ends
text_to_speech_synthesized(r, ok, path) ==
    /\ pc[r] = "synthesizing"
    /\ endpoint[r] = "text-to-speech"
    /\ IF ok THEN text_to_speech_returned(r, path)
             ELSE text_to_speech_failed(r)
    /\ UNCHANGED <<endpoint, request, conv_args, synth_args, age, store, otherVars>>

----------------------------------------------------------------------------
(* POST /api/v1/conversation *)

ai_conversation_except(r, e) == Returns(r, FailureResponse(e))

\* Entry of the handler, up to the await of process_conversation
ai_conversation(r, req) ==
    /\ Arrives(r)
    /\ endpoint' = [endpoint EXCEPT ![r] = "conversation"]
    /\ request' = [request EXCEPT ![r] = req]
    /\ conv_args' = [conv_args EXCEPT ![r] =
           [message |-> req.message, context |-> req.context,
            user_id |-> req.user_id, conversation_id |-> req.conversation_id]]
    /\ Logged(r, << <<"converse", "call">> >>)
    /\ Awaits(r, "conversing")
    /\ UNCHANGED <<transcription, conversation_response, audio_path, synth_args,
                   bg, files, age, store, otherVars>>

\* process_conversation raises
ai_conversation_failed(r) ==
    /\ Logged(r, << <<"converse", "fail">> >>)
    /\ ai_conversation_except(r, "BackendError")
    /\ UNCHANGED bg

\* Faulty variant of ai_conversation_returned: the confidence is read with a
\* subscript, as the other keys are, and its absence is a KeyError
ai_conversation_returned_Subscript(r, result) ==
    \/ /\ ~HasKey(result, "response")
       /\ Logged(r, << <<"converse", "ok">> >>)
       /\ ai_conversation_except(r, "KeyError")
       /\ UNCHANGED bg
    \/ /\ HasKey(result, "response")
       /\ Logged(r, << <<"converse", "ok">> >>)
       /\ AddTask(r, "log_conversation",
                  [user_id |-> request[r].user_id,
                   input_message |-> request[r].message,
                   response |-> result["response"]])
       /\ IF HasKeys(result, {"context", "conversation_id", "confidence",
                              "processing_time"})
          THEN Returns(r, [status |-> STATUS_OK,
                           body |-> [response |-> result["response"],
                                     context |-> result["context"],
                                     conversation_id |-> result["conversation_id"],
                                     confidence |-> result["confidence"],
                                     processing_time |-> result["processing_time"]]])
          ELSE ai_conversation_except(r, "KeyError")

\* process_conversation returns: response["response"] is read while the
\* arguments of add_task are evaluated, the other keys after the task is added
ai_conversation_returned(r, result) ==
    \/ /\ ~HasKey(result, "response")
       /\ Logged(r, << <<"converse", "ok">> >>)
       /\ ai_conversation_except(r, "KeyError")
       /\ UNCHANGED bg
    \/ /\ HasKey(result, "response")
       /\ Logged(r, << <<"converse", "ok">> >>)
       /\ AddTask(r, "log_conversation",
                  [user_id |-> request[r].user_id,
                   input_message |-> request[r].message,
                   response |-> result["response"]])
       /\ IF HasKeys(result, {"context", "conversation_id", "processing_time"})
          THEN Returns(r, [status |-> STATUS_OK,
                           body |-> [response |-> result["response"],
                                     context |-> result["context"],
                                     conversation_id |-> result["conversation_id"],
                                     confidence |-> Get(result, "confidence", DefaultConfidence),
                                     processing_time |-> result["processing_time"]]])
          ELSE ai_conversation_except(r, "KeyError")

\* The await of process_conversation ends
ai_conversation_conversed(r, ok, result) ==
    /\ pc[r] = "conversing"
    /\ endpoint[r] = "conversation"
    /\ IF ok THEN /\ ai_conversation_returned(r, Conversed(r, result))
                  /\ store' = StoreAfter(r)
             ELSE /\ ai_conversation_failed(r)
                  /\ UNCHANGED store
    /\ UNCHANGED <<endpoint, request, conv_args, synth_args, files, age,
                   otherVars>>

----------------------------------------------------------------------------
(* Background tasks.  The tasks added to a request's BackgroundTasks are    *)
(* attached to the response the handler returns: they run one after the    *)
(* other once that response has been sent.  When the handler raises, the   *)
(* error response carries no tasks and the ones already added never run.   *)
(* Workers are separate processes sharing the disk, so the tasks of        *)
(* different requests interleave at every step.                            *)

Sent(r) == pc[r] = "done" /\ response[r].status = STATUS_OK

IsNextTask(r, i) ==
    /\ Sent(r)
    /\ i \in 1..Len(bg[r])
    /\ \A j \in 1..(i - 1) : bg[r][j].st = "done"

SetTask(r, i, t) == bg' = [bg EXCEPT ![r][i] = t]

Finished(t, result) == [t EXCEPT !.st = "done", !.result = result]

\* The exceptions a task catches in its "except Exception" and logs
Errors == {"FileNotFoundError", "OSError", "SessionError", "NameError"}

\* The task has ended in its except clause
Erred(t) == t.st = "done" /\ t.result \in Errors

\* Faulty variant of SleepOver: the task does not wait
SleepOver_NoWait(t) == t.slept >= 0

\* await asyncio.sleep(300) has returned
SleepOver(t) == t.slept >= CleanupDelay

taskFrame == <<pc, endpoint, request, transcription, conversation_response,
               audio_path, conv_args, synth_args, response, log, age, store, otherVars>>

\* cleanup_temp_file starts: await asyncio.sleep(300)
cleanup_temp_file_sleep(r, i) ==
    /\ IsNextTask(r, i)
    /\ bg[r][i].fn = "cleanup_temp_file"
    /\ bg[r][i].st = "pending"
    /\ SetTask(r, i, [bg[r][i] EXCEPT !.st = "sleeping", !.slept = 0])
    /\ UNCHANGED <<taskFrame, files>>

\* Faulty variant of cleanup_temp_file_exists: os.remove is called without
\* looking whether the file exists
cleanup_temp_file_exists_Unchecked(r, i) ==
    /\ IsNextTask(r, i)
    /\ bg[r][i].fn = "cleanup_temp_file"
    /\ bg[r][i].st = "sleeping"
    /\ SleepOver(bg[r][i])
    /\ SetTask(r, i, [bg[r][i] EXCEPT !.st = "removing"])
    /\ UNCHANGED <<taskFrame, files>>

\* if os.path.exists(file_path):
cleanup_temp_file_exists(r, i) ==
    /\ IsNextTask(r, i)
    /\ bg[r][i].fn = "cleanup_temp_file"
    /\ bg[r][i].st = "sleeping"
    /\ SleepOver(bg[r][i])
    /\ \/ /\ bg[r][i].arg \in files
          /\ SetTask(r, i, [bg[r][i] EXCEPT !.st = "removing"])
       \/ /\ bg[r][i].arg \notin files
          /\ SetTask(r, i, Finished(bg[r][i], "absent"))
    /\ UNCHANGED <<taskFrame, files>>

\* Faulty variant of cleanup_temp_file_remove: the file is reported cleaned up
\* but never removed
cleanup_temp_file_remove_Forgotten(r, i, oserror) ==
    /\ IsNextTask(r, i)
    /\ bg[r][i].fn = "cleanup_temp_file"
    /\ bg[r][i].st = "removing"
    /\ SetTask(r, i, Finished(bg[r][i], "removed"))
    /\ UNCHANGED <<taskFrame, files>>

\* Faulty variant of cleanup_temp_file_remove: there is no except clause, the
\* exception of os.remove escapes the task
cleanup_temp_file_remove_Escaping(r, i, oserror) ==
    /\ IsNextTask(r, i)
    /\ bg[r][i].fn = "cleanup_temp_file"
    /\ bg[r][i].st = "removing"
    /\ \/ /\ bg[r][i].arg \notin files
          /\ SetTask(r, i, [bg[r][i] EXCEPT !.st = "raised",
                                            !.result = "FileNotFoundError"])
          /\ UNCHANGED files
       \/ /\ bg[r][i].arg \in files
          /\ oserror
          /\ SetTask(r, i, [bg[r][i] EXCEPT !.st = "raised", !.result = "OSError"])
          /\ UNCHANGED files
       \/ /\ bg[r][i].arg \in files
          /\ ~oserror
          /\ files' = files \ {bg[r][i].arg}
          /\ SetTask(r, i, Finished(bg[r][i], "removed"))
    /\ UNCHANGED taskFrame

\* os.remove(file_path): raises FileNotFoundError when the file is gone by
\* now, or another OSError when the operating system refuses; the exception
\* is logged and swallowed
cleanup_temp_file_remove(r, i, oserror) ==
    /\ IsNextTask(r, i)
    /\ bg[r][i].fn = "cleanup_temp_file"
    /\ bg[r][i].st = "removing"
    /\ \/ /\ bg[r][i].arg \notin files
          /\ SetTask(r, i, Finished(bg[r][i], "FileNotFoundError"))
          /\ UNCHANGED files
       \/ /\ bg[r][i].arg \in files
          /\ oserror
          /\ SetTask(r, i, Finished(bg[r][i], "OSError"))
          /\ UNCHANGED files
       \/ /\ bg[r][i].arg \in files
          /\ ~oserror
          /\ files' = files \ {bg[r][i].arg}
          /\ SetTask(r, i, Finished(bg[r][i], "removed"))
    /\ UNCHANGED taskFrame

\* The exception a logging task ends with: get_db_session fails, or the
\* session opens and the call of save_analytics / save_conversation_log
\* raises NameError, since app.py neither defines nor imports these names
LogOutcome(dberror) == IF dberror THEN "SessionError" ELSE "NameError"

\* Faulty variant of log_usage_analytics: there is no except clause, the
\* exception escapes the task
log_usage_analytics_Unguarded(r, i, dberror) ==
    /\ IsNextTask(r, i)
    /\ bg[r][i].fn = "log_usage_analytics"
    /\ bg[r][i].st = "pending"
    /\ SetTask(r, i, [bg[r][i] EXCEPT !.st = "raised",
                                      !.result = LogOutcome(dberror)])
    /\ UNCHANGED <<taskFrame, files>>

\* Faulty variant of log_usage_analytics: the exception takes the scheduler
\* down with it, and the tasks that have not ended by then are abandoned
log_usage_analytics_Crashing(r, i, dberror) ==
    /\ IsNextTask(r, i)
    /\ bg[r][i].fn = "log_usage_analytics"
    /\ bg[r][i].st = "pending"
    /\ bg' = [q \in Reqs |->
                [j \in 1..Len(bg[q]) |->
                    IF q = r /\ j = i
                    THEN Finished(bg[r][i], LogOutcome(dberror))
                    ELSE IF bg[q][j].st # "done"
                         THEN [bg[q][j] EXCEPT !.st = "abandoned"]
                         ELSE bg[q][j]]]
    /\ UNCHANGED <<taskFrame, files>>

\* log_usage_analytics: the exception is logged and swallowed
log_usage_analytics(r, i, dberror) ==
    /\ IsNextTask(r, i)
    /\ bg[r][i].fn = "log_usage_analytics"
    /\ bg[r][i].st = "pending"
    /\ SetTask(r, i, Finished(bg[r][i], LogOutcome(dberror)))
    /\ UNCHANGED <<taskFrame, files>>

\* log_conversation: the exception is logged and swallowed
log_conversation(r, i, dberror) ==
    /\ IsNextTask(r, i)
    /\ bg[r][i].fn = "log_conversation"
    /\ bg[r][i].st = "pending"
    /\ SetTask(r, i, Finished(bg[r][i], LogOutcome(dberror)))
    /\ UNCHANGED <<taskFrame, files>>

----------------------------------------------------------------------------
(* Time.  age[r] counts the seconds since the response of r was sent, while *)
(* a task of r is outstanding; slept counts the seconds a task has been in  *)
(* asyncio.sleep.  Both stop counting at CleanupDelay.                      *)

Outstanding(r) == Sent(r) /\ \E i \in 1..Len(bg[r]) : bg[r][i].st # "done"

Advance(n) == Min(n + TickStep, CleanupDelay)

Tick ==
    /\ age' = [r \in Reqs |-> IF Outstanding(r) THEN Advance(age[r]) ELSE age[r]]
    /\ bg' = [r \in Reqs |->
                [i \in 1..Len(bg[r]) |->
                    IF Sent(r) /\ bg[r][i].st = "sleeping"
                    THEN [bg[r][i] EXCEPT !.slept = Advance(@)]
                    ELSE bg[r][i]]]
    /\ (age' # age \/ bg' # bg)
    /\ UNCHANGED <<pc, endpoint, request, transcription, conversation_response,
                   audio_path, conv_args, synth_args, response, log, files,
                   store, otherVars>>

----------------------------------------------------------------------------
(* Startup and shutdown of the application.  The server runs startup_event   *)
(* before it serves a request; when startup_event raises, the server exits   *)
(* and never runs shutdown_event.  It runs shutdown_event when it stops,     *)
(* after the requests in flight and their background tasks have finished.    *)

\* A lifecycle call ends, with outcome, and the application goes on to phase
Proceeds(name, outcome, phase) ==
    lifecycle' = [phase |-> phase,
                  calls |-> Append(lifecycle.calls, <<name, outcome>>)]

lifecycleFrame == <<appVars, services, process, config>>

\* The server starts: startup_event awaits init_database()
startup_event ==
    /\ lifecycle.phase = "created"
    /\ lifecycle' = [lifecycle EXCEPT !.phase = "init_database"]
    /\ UNCHANGED lifecycleFrame

\* init_database ends: it logs and re-raises what get_db_session raised, and
\* startup_event goes on to conversation_engine.initialize() otherwise
init_database(ok) ==
    /\ lifecycle.phase = "init_database"
    /\ IF ok THEN Proceeds("init_database", "ok", "conversation_engine.initialize")
             ELSE Proceeds("init_database", "fail", "startup_failed")
    /\ UNCHANGED lifecycleFrame

\* conversation_engine.initialize() ends; speech_processor.initialize() is next
conversation_engine_initialized(ok) ==
    /\ lifecycle.phase = "conversation_engine.initialize"
    /\ IF ok THEN Proceeds("conversation_engine.initialize", "ok",
                           "speech_processor.initialize")
             ELSE Proceeds("conversation_engine.initialize", "fail", "startup_failed")
    /\ UNCHANGED lifecycleFrame

\* speech_processor.initialize() ends: startup is complete, requests are served
speech_processor_initialized(ok) ==
    /\ lifecycle.phase = "speech_processor.initialize"
    /\ IF ok THEN Proceeds("speech_processor.initialize", "ok", "serving")
             ELSE Proceeds("speech_processor.initialize", "fail", "startup_failed")
    /\ UNCHANGED lifecycleFrame

\* No request is in flight and no background task is left
Quiescent ==
    \A r \in Reqs :
        /\ pc[r] \in {"idle", "done"}
        /\ \A i \in 1..Len(bg[r]) : Sent(r) => bg[r][i].st = "done"

\* The server stops: shutdown_event awaits conversation_engine.cleanup()
shutdown_event ==
    /\ lifecycle.phase = "serving"
    /\ Quiescent
    /\ lifecycle' = [lifecycle EXCEPT !.phase = "conversation_engine.cleanup"]
    /\ UNCHANGED lifecycleFrame

\* conversation_engine.cleanup() ends: what it raises leaves shutdown_event,
\* speech_processor.cleanup() is next otherwise
conversation_engine_cleaned(ok) ==
    /\ lifecycle.phase = "conversation_engine.cleanup"
    /\ IF ok THEN Proceeds("conversation_engine.cleanup", "ok",
                           "speech_processor.cleanup")
             ELSE Proceeds("conversation_engine.cleanup", "fail", "shutdown_failed")
    /\ UNCHANGED lifecycleFrame

\* speech_processor.cleanup() ends
speech_processor_cleaned(ok) ==
    /\ lifecycle.phase = "speech_processor.cleanup"
    /\ IF ok THEN Proceeds("speech_processor.cleanup", "ok", "stopped")
             ELSE Proceeds("speech_processor.cleanup", "fail", "shutdown_failed")
    /\ UNCHANGED lifecycleFrame

----------------------------------------------------------------------------
(* GET /health *)

\* What a backend's health_check returns
HealthReports == {[ok |-> TRUE], [ok |-> FALSE]}

\* The answer of the server to an exception that leaves a handler
InternalServerError == [status |-> STATUS_ERROR, body |-> [detail |-> "Internal Server Error"]]

\* The handler is left: its partly built dict is gone
health_check_leaves(r, resp) ==
    /\ Returns(r, resp)
    /\ services' = [services EXCEPT ![r] = EmptyDict]

healthFrame == <<endpoint, request, conv_args, synth_args, bg, log, files, age,
                 store, lifecycle, process, config>>

\* Entry of the handler: the dict is built up to the await of
\* speech_processor.health_check()
health_check(r) ==
    /\ Arrives(r)
    /\ endpoint' = [endpoint EXCEPT ![r] = "health"]
    /\ Awaits(r, "speech_health")
    /\ UNCHANGED <<request, transcription, conversation_response, audio_path,
                   conv_args, synth_args, bg, log, files, age, store, lifecycle,
                   services, process, config>>

\* speech_processor.health_check() ends: what it raises leaves the handler,
\* which has no try; conversation_engine.health_check() is awaited otherwise
health_check_speech(r, ok, report) ==
    /\ pc[r] = "speech_health"
    /\ IF ok
       THEN /\ services' = [services EXCEPT ![r] = [speech_processor |-> report]]
            /\ Awaits(r, "conversation_health")
            /\ UNCHANGED <<transcription, conversation_response, audio_path>>
       ELSE health_check_leaves(r, InternalServerError)
    /\ UNCHANGED healthFrame

\* Faulty variant of health_check_conversation: the handler answers 500 when
\* a backend reports that it is not healthy
health_check_conversation_Strict(r, ok, report) ==
    /\ pc[r] = "conversation_health"
    /\ IF ok /\ report.ok /\ services[r].speech_processor.ok
       THEN health_check_leaves(r,
                   [status |-> STATUS_OK,
                    body |-> [status |-> "healthy",
                              timestamp |-> "time",
                              services |-> [speech_processor |->
                                                services[r].speech_processor,
                                            conversation_engine |-> report]]])
       ELSE health_check_leaves(r, InternalServerError)
    /\ UNCHANGED healthFrame

\* conversation_engine.health_check() ends: the dict is complete and returned
health_check_conversation(r, ok, report) ==
    /\ pc[r] = "conversation_health"
    /\ IF ok
       THEN health_check_leaves(r,
                   [status |-> STATUS_OK,
                    body |-> [status |-> "healthy",
                              timestamp |-> "time",
                              services |-> [speech_processor |->
                                                services[r].speech_processor,
                                            conversation_engine |-> report]]])
       ELSE health_check_leaves(r, InternalServerError)
    /\ UNCHANGED healthFrame

----------------------------------------------------------------------------
(* The system *)

Next ==
    \/ \E r \in Reqs, ct \in ContentTypes : voice_conversation(r, ct)
    \/ \E r \in Reqs, ok \in BOOLEAN, result \in TranscribeResults :
           voice_transcribed(r, ok, result)
    \/ \E r \in Reqs, ok \in BOOLEAN, result \in ConversationResults :
           voice_conversed(r, ok, result)
    \/ \E r \in Reqs, ok \in BOOLEAN, path \in Paths : voice_synthesized(r, ok, path)
    \/ \E r \in Reqs, ct \in ContentTypes : speech_to_text(r, ct)
    \/ \E r \in Reqs, ok \in BOOLEAN, result \in TranscribeResults :
           speech_to_text_transcribed(r, ok, result)
    \/ \E r \in Reqs, req \in VoiceRequests : text_to_speech(r, req)
    \/ \E r \in Reqs, ok \in BOOLEAN, path \in Paths :
           text_to_speech_synthesized(r, ok, path)
    \/ \E r \in Reqs, req \in ConversationRequests \cup FollowUps(store) :
           ai_conversation(r, req)
    \/ \E r \in Reqs, ok \in BOOLEAN, result \in ConversationResults :
           ai_conversation_conversed(r, ok, result)
    \/ \E r \in Reqs : \E i \in 1..Len(bg[r]) : cleanup_temp_file_sleep(r, i)
    \/ \E r \in Reqs : \E i \in 1..Len(bg[r]) : cleanup_temp_file_exists(r, i)
    \/ \E r \in Reqs : \E i \in 1..Len(bg[r]), oserror \in BOOLEAN :
           cleanup_temp_file_remove(r, i, oserror)
    \/ \E r \in Reqs : \E i \in 1..Len(bg[r]), dberror \in BOOLEAN :
           log_usage_analytics(r, i, dberror)
    \/ \E r \in Reqs : \E i \in 1..Len(bg[r]), dberror \in BOOLEAN :
           log_conversation(r, i, dberror)
    \/ Tick
    \/ startup_event
    \/ \E ok \in BOOLEAN : init_database(ok)
    \/ \E ok \in BOOLEAN : conversation_engine_initialized(ok)
    \/ \E ok \in BOOLEAN : speech_processor_initialized(ok)
    \/ shutdown_event
    \/ \E ok \in BOOLEAN : conversation_engine_cleaned(ok)
    \/ \E ok \in BOOLEAN : speech_processor_cleaned(ok)
    \/ \E r \in Reqs : health_check(r)
    \/ \E r \in Reqs, ok \in BOOLEAN, report \in HealthReports :
           health_check_speech(r, ok, report)
    \/ \E r \in Reqs, ok \in BOOLEAN, report \in HealthReports :
           health_check_conversation(r, ok, report)

Spec == Init /\ [][Next]_vars

\* The event loop runs every background task that is ready to take a step,
\* and time passes
CleanupStep(r) ==
    \E i \in 1..Len(bg[r]) :
        \/ cleanup_temp_file_sleep(r, i)
        \/ cleanup_temp_file_exists(r, i)
        \/ \E oserror \in BOOLEAN : cleanup_temp_file_remove(r, i, oserror)

LogStep(r) ==
    \E i \in 1..Len(bg[r]), dberror \in BOOLEAN :
        \/ log_usage_analytics(r, i, dberror)
        \/ log_conversation(r, i, dberror)

Fairness ==
    /\ WF_vars(Tick)
    /\ \A r \in Reqs : WF_vars(CleanupStep(r))
    /\ \A r \in Reqs : WF_vars(LogStep(r))

LiveSpec == Init /\ [][Next]_vars /\ Fairness

----------------------------------------------------------------------------
(* main.py: the launcher.  A run is given its inputs at its start: whether   *)
(* the imports of the module succeed, the command line, whether the log file *)
(* can be opened, the paths that exist in the working directory and whether  *)
(* load_config raises.                                                       *)

required_dirs == <<"src", "src/utils">>

required_files == <<"app.py", "requirements.txt", "src/utils/config.py",
                    "src/utils/logger.py">>

Range(seq) == {seq[i] : i \in 1..Len(seq)}

RequiredPaths == Range(required_dirs) \cup Range(required_files)

\* The working directories: complete, or with one required path missing
WorkingDirs ==
    {RequiredPaths} \cup {RequiredPaths \ {path} : path \in RequiredPaths}

\* Command lines: --reload, or a number of --workers
CommandLines ==
    {[reload |-> TRUE, workers |-> 1],
     [reload |-> FALSE, workers |-> 1],
     [reload |-> FALSE, workers |-> 2]}

\* The runs of main.py, before their first step
Launches ==
    {[pc |-> "import", imports |-> imports, args |-> args, log_file |-> log_file,
      cwd |-> cwd, load_config_raises |-> raises, calls |-> <<>>,
      server |-> EmptyDict, status |-> EXIT_SUCCESS] :
        imports \in BOOLEAN, args \in CommandLines, log_file \in BOOLEAN,
        cwd \in WorkingDirs, raises \in BOOLEAN}

\* The first of paths that is not in cwd, 0 when all are
FirstMissing(paths, cwd) ==
    IF \A i \in 1..Len(paths) : paths[i] \in cwd
    THEN 0
    ELSE CHOOSE i \in 1..Len(paths) :
             /\ paths[i] \notin cwd
             /\ \A j \in 1..(i - 1) : paths[j] \in cwd

\* The directories are looked at first, then the files; the first missing
\* path makes the function return False
validate_environment(cwd) ==
    IF FirstMissing(required_dirs, cwd) # 0 THEN FALSE
    ELSE IF FirstMissing(required_files, cwd) # 0 THEN FALSE
    ELSE TRUE

\* try: load_config() ... return True; except Exception: return False
startup_checks(raises) == IF raises THEN FALSE ELSE TRUE

Str(b) == IF b THEN "True" ELSE "False"

\* sys.exit(status), or the end of the script: the finally clause of main()
\* only logs
Exits(status) == [process EXCEPT !.pc = "exited", !.status = status]

mainFrame == <<appVars, lifecycle, services, config>>

\* Module level: an ImportError of the imports is printed and the script
\* exits with status 1
main_import ==
    /\ process.pc = "import"
    /\ process' = IF process.imports THEN [process EXCEPT !.pc = "main"]
                                     ELSE Exits(EXIT_FAILURE)
    /\ UNCHANGED mainFrame

\* main(): parse_arguments() and setup_logging(); what setup_logging raises
\* is caught by "except Exception", which exits with status 1
main ==
    /\ process.pc = "main"
    /\ process' = IF process.log_file
                  THEN [process EXCEPT !.pc = "validate_environment"]
                  ELSE Exits(EXIT_FAILURE)
    /\ UNCHANGED mainFrame

\* Faulty variant of main_validate_environment: the result is not looked at
main_validate_environment_Ignored ==
    /\ process.pc = "validate_environment"
    /\ LET result == validate_environment(process.cwd)
           called == Append(process.calls, <<"validate_environment", Str(result)>>)
       IN  process' = [process EXCEPT !.pc = "startup_checks", !.calls = called]
    /\ UNCHANGED mainFrame

\* if not validate_environment(): sys.exit(1)
main_validate_environment ==
    /\ process.pc = "validate_environment"
    /\ LET result == validate_environment(process.cwd)
           called == Append(process.calls, <<"validate_environment", Str(result)>>)
       IN  process' = IF result
                      THEN [process EXCEPT !.pc = "startup_checks", !.calls = called]
                      ELSE [Exits(EXIT_FAILURE) EXCEPT !.calls = called]
    /\ UNCHANGED mainFrame

\* The keyword arguments of uvicorn.run
uvicorn_config(args) ==
    IF args.reload THEN [app |-> "app:app", reload |-> TRUE]
                   ELSE [app |-> "app:app", workers |-> args.workers]

\* if not asyncio.run(startup_checks()): sys.exit(1); uvicorn.run is called
\* otherwise
main_startup_checks ==
    /\ process.pc = "startup_checks"
    /\ LET result == startup_checks(process.load_config_raises)
           called == Append(process.calls, <<"startup_checks", Str(result)>>)
       IN  process' = IF result
                      THEN [process EXCEPT
                               !.pc = "uvicorn.run",
                               !.calls = Append(called, <<"uvicorn.run", "call">>),
                               !.server = uvicorn_config(process.args)]
                      ELSE [Exits(EXIT_FAILURE) EXCEPT !.calls = called]
    /\ UNCHANGED mainFrame

\* How uvicorn.run ends
ServerEnds == {"return", "KeyboardInterrupt", "Exception"}

\* uvicorn.run ends: a KeyboardInterrupt is logged and main() returns, any
\* other exception exits with status 1
main_uvicorn_run(end) ==
    /\ process.pc = "uvicorn.run"
    /\ process' = IF end = "Exception" THEN Exits(EXIT_FAILURE)
                                        ELSE Exits(EXIT_SUCCESS)
    /\ UNCHANGED mainFrame

MainInit ==
    /\ Constructed
    /\ process \in Launches
    /\ config = NoCall

MainNext ==
    \/ main_import
    \/ main
    \/ main_validate_environment
    \/ main_startup_checks
    \/ \E end \in ServerEnds : main_uvicorn_run(end)

MainSpec == MainInit /\ [][MainNext]_vars

----------------------------------------------------------------------------
(* src/utils/config.py: get_config.  A call is given the environment         *)
(* variables of the process, which are strings or unset (None), and its      *)
(* argument.  The variables are those validate_configuration depends on, and *)
(* ENVIRONMENT; the module and the call see the same variables.              *)

\* The environments: each variable is unset or has one of a few values
Envs ==
    [DEBUG : {None, "true", "false"},
     SECRET_KEY : {None, "s3cret", ""},
     OPENAI_API_KEY : {None, "sk-1"},
     SPEECH_MODEL_TYPE : {None, "openai"},
     MAX_FILE_SIZE : {None, "209715200"},
     PORT : {None, "80"},
     METRICS_PORT : {None, "80"},
     REQUEST_TIMEOUT : {None, "10"},
     ENVIRONMENT : {None, "production", "Testing"}]

\* The arguments of get_config
EnvironmentNames == {None, "development", "production", "testing", "staging", "Production"}

\* The calls of get_config, before they run
Calls ==
    {[pc |-> "call", environment |-> environment, env |-> env,
      result |-> EmptyDict, raised |-> None] :
        environment \in EnvironmentNames, env \in Envs}

\* pydantic reads an int field from its decimal string
ParseInt(v) ==
    CASE v = "209715200" -> 200 * 1024 * 1024
      [] v = "80" -> 80
      [] v = "10" -> 10

\* and a bool field from "true" or "false"
ParseBool(v) == v = "true"

\* str.lower() of the names in use
Lower(v) ==
    CASE v = "Testing" -> "testing"
      [] v = "Production" -> "production"
      [] OTHER -> v

\* The field defaults of Settings, and those the subclasses redefine
ClassDefaults(class) ==
    [class |-> class,
     DEBUG |-> class \in {"DevelopmentConfig", "TestingConfig"},
     WORKERS |-> IF class = "DevelopmentConfig" THEN 1 ELSE 4,
     SECRET_KEY |-> "your-secret-key-change-in-production",
     OPENAI_API_KEY |-> None,
     SPEECH_MODEL_TYPE |-> "whisper",
     MAX_FILE_SIZE |-> 50 * 1024 * 1024,
     PORT |-> 8000,
     METRICS_PORT |-> 8001,
     REQUEST_TIMEOUT |-> 300]

\* class(): a field takes the value of its environment variable when that is
\* set, and its default otherwise
New(class, env) ==
    LET default == ClassDefaults(class)
        Field(k) == IF env[k] = None THEN default[k] ELSE env[k]
        IntField(k) == IF env[k] = None THEN default[k] ELSE ParseInt(env[k])
    IN  [class |-> class,
         DEBUG |-> IF env.DEBUG = None THEN default.DEBUG ELSE ParseBool(env.DEBUG),
         WORKERS |-> default.WORKERS,
         SECRET_KEY |-> Field("SECRET_KEY"),
         OPENAI_API_KEY |-> Field("OPENAI_API_KEY"),
         SPEECH_MODEL_TYPE |-> Field("SPEECH_MODEL_TYPE"),
         MAX_FILE_SIZE |-> IntField("MAX_FILE_SIZE"),
         PORT |-> IntField("PORT"),
         METRICS_PORT |-> IntField("METRICS_PORT"),
         REQUEST_TIMEOUT |-> IntField("REQUEST_TIMEOUT")]

\* settings = Settings(): the global instance of the module
settings(env) == New("Settings", env)

\* The checks of validate_configuration, applied to the configuration s: the
\* errors it collects
ConfigurationErrors(s) ==
    {e \in {"SECRET_KEY", "OPENAI_API_KEY", "MAX_FILE_SIZE", "PORT", "METRICS_PORT",
            "REQUEST_TIMEOUT"} :
        CASE e = "SECRET_KEY" ->
                 /\ ~s.DEBUG
                 /\ s.SECRET_KEY \in {"", "your-secret-key-change-in-production"}
          [] e = "OPENAI_API_KEY" ->
                 /\ ~s.DEBUG
                 /\ s.OPENAI_API_KEY \in {None, ""}
                 /\ s.SPEECH_MODEL_TYPE = "openai"
          [] e = "MAX_FILE_SIZE" -> s.MAX_FILE_SIZE > 100 * 1024 * 1024
          [] e = "PORT" -> ~(1024 <= s.PORT /\ s.PORT <= 65535)
          [] e = "METRICS_PORT" -> ~(1024 <= s.METRICS_PORT /\ s.METRICS_PORT <= 65535)
          [] e = "REQUEST_TIMEOUT" -> s.REQUEST_TIMEOUT < 30}

\* validate_configuration() takes no argument: it checks the global settings.
\* TRUE when it returns, FALSE when it raises ValueError
validate_configuration(env) == ConfigurationErrors(settings(env)) = {}

\* environment or os.getenv('ENVIRONMENT', 'development').lower()
EnvironmentOf(environment, env) ==
    IF environment \notin {None, ""}
    THEN environment
    ELSE Lower(IF env.ENVIRONMENT = None THEN "development" ELSE env.ENVIRONMENT)

\* config_mapping.get(environment, Settings)
config_class(environment) ==
    CASE environment = "development" -> "DevelopmentConfig"
      [] environment = "production" -> "ProductionConfig"
      [] environment = "testing" -> "TestingConfig"
      [] OTHER -> "Settings"

\* The call runs: the configuration is made, the global settings are
\* validated, and the configuration is returned unless that raised
get_config ==
    /\ config.pc = "call"
    /\ LET made == New(config_class(EnvironmentOf(config.environment, config.env)),
                       config.env)
       IN  config' = IF validate_configuration(config.env)
                     THEN [config EXCEPT !.pc = "returned", !.result = made]
                     ELSE [config EXCEPT !.pc = "raised", !.raised = "ValueError"]
    /\ UNCHANGED <<appVars, lifecycle, services, process>>

ConfigInit ==
    /\ Constructed
    /\ process = NoProcess
    /\ config \in Calls

ConfigNext == get_config

ConfigSpec == ConfigInit /\ [][ConfigNext]_vars

----------------------------------------------------------------------------
(* Vocabulary of the properties *)

Voice(r) == endpoint[r] = "voice-conversation"

Completed(r) == pc[r] = "done" /\ response[r].status = STATUS_OK

Failed(r) == pc[r] = "done" /\ response[r].status # STATUS_OK

\* The positions of the log of r that hold the event <<op, ev>>
Events(r, op, ev) == {i \in 1..Len(log[r]) : log[r][i] = <<op, ev>>}

Invoked(r, op) == Events(r, op, "call") # {}

Operations == {"transcribe", "converse", "synthesize"}

\* The tasks of r that run one of the functions fns
TasksOf(r, fns) == {i \in 1..Len(bg[r]) : bg[r][i].fn \in fns}

\* The upload has a content type that starts with "audio/"
IsAudio(ct) == ct # NoContentType /\ StartsWithAudio(ct)

----------------------------------------------------------------------------
\* C1: in the voice-conversation flow, once transcribe has failed for a
\* request, converse and synthesize have not been invoked for it and no
\* background task has been added for it.
C1_TranscribeFailureStopsPipeline ==
    \A r \in Reqs :
        (Voice(r) /\ Events(r, "transcribe", "fail") # {}) =>
            /\ ~Invoked(r, "converse")
            /\ ~Invoked(r, "synthesize")
            /\ bg[r] = <<>>

C1_Witness ==
    \E r \in Reqs :
        Voice(r) /\ Events(r, "transcribe", "fail") # {} /\ pc[r] = "done"

\* C2: within one voice-conversation request the log of backend events is
\* ordered transcribe, converse, synthesize: transcribe is called first,
\* converse is called only right after transcribe succeeded, synthesize only
\* right after converse succeeded, and the response is sent only after
\* synthesize succeeded.
C2_StagesInOrder ==
    \A r \in Reqs :
        Voice(r) =>
            /\ \A i \in Events(r, "transcribe", "call") : i = 1
            /\ \A i \in Events(r, "converse", "call") :
                   i > 1 /\ log[r][i - 1] = <<"transcribe", "ok">>
            /\ \A i \in Events(r, "synthesize", "call") :
                   i > 1 /\ log[r][i - 1] = <<"converse", "ok">>
            /\ Completed(r) =>
                   /\ Len(log[r]) > 0
                   /\ log[r][Len(log[r])] = <<"synthesize", "ok">>

C2_Witness ==
    \E r, q \in Reqs :
        /\ r # q
        /\ Voice(r) /\ Completed(r)
        /\ Voice(q) /\ pc[q] = "conversing"

\* C3: on every endpoint, once a backend stage of a request has failed, that
\* failure is the last backend event of the request, and the request has
\* ended with a response of status 500 whose body holds the failure detail
\* and nothing else.
C3_FailFastNoPartialResult ==
    \A r \in Reqs :
        \A i \in 1..Len(log[r]) :
            log[r][i][2] = "fail" =>
                /\ i = Len(log[r])
                /\ pc[r] = "done"
                /\ response[r].status = STATUS_ERROR
                /\ DOMAIN response[r].body = {"detail"}
                /\ response[r].body.detail = <<"Processing failed", "BackendError">>

C3_Witness ==
    \E r \in Reqs :
        /\ Voice(r)
        /\ Events(r, "converse", "ok") # {}
        /\ Events(r, "synthesize", "fail") # {}
        /\ Failed(r)

\* C4: in every request, on every endpoint, each backend operation is
\* invoked at most once, whether the request ends Completed or Failed.
C4_NoRetry ==
    \A r \in Reqs :
        \A op \in Operations : Cardinality(Events(r, op, "call")) <= 1

C4_Witness ==
    \E r, q \in Reqs :
        /\ Voice(r) /\ Completed(r)
        /\ \A op \in Operations : Cardinality(Events(r, op, "call")) = 1
        /\ Failed(q) /\ Events(q, "transcribe", "fail") # {}

\* C5: a successful voice-conversation request has exactly one
\* cleanup_temp_file task, its path has the file name the response's
\* audio_url refers to, and when that task has removed the file at least
\* CleanupDelay seconds have passed since the response.
C5_OneCleanupNotBeforeDelay ==
    \A r \in Reqs :
        (Voice(r) /\ Completed(r)) =>
            /\ Cardinality(TasksOf(r, {"cleanup_temp_file"})) = 1
            /\ \A i \in TasksOf(r, {"cleanup_temp_file"}) :
                   /\ PathName(bg[r][i].arg) = response[r].body.audio_url[2]
                   /\ bg[r][i].result = "removed" => age[r] >= CleanupDelay

C5_Witness ==
    \E r \in Reqs :
        /\ Voice(r) /\ Completed(r)
        /\ \E i \in TasksOf(r, {"cleanup_temp_file"}) : bg[r][i].result = "removed"

\* The successful voice-conversation or text-to-speech request r has a
\* cleanup task for the artifact p
Generated(r, p) ==
    /\ Completed(r)
    /\ endpoint[r] \in {"voice-conversation", "text-to-speech"}
    /\ \E i \in TasksOf(r, {"cleanup_temp_file"}) : bg[r][i].arg = p

\* The cleanup task of r for the artifact p has not finished yet
CleanupPending(r, p) ==
    /\ Generated(r, p)
    /\ \E i \in TasksOf(r, {"cleanup_temp_file"}) :
           bg[r][i].arg = p /\ bg[r][i].st # "done"

\* The cleanup task of r for p has ended in an error that was logged
CleanupErred(r, p) ==
    \E i \in TasksOf(r, {"cleanup_temp_file"}) :
        bg[r][i].arg = p /\ Erred(bg[r][i])

\* C6 (as claimed): after a successful voice-conversation or text-to-speech
\* request, under fair scheduling of its cleanup task and of time, the
\* generated artifact is eventually absent from the store.
C6_EventuallyAbsent ==
    \A r \in Reqs : \A p \in Paths : CleanupPending(r, p) ~> (p \notin files)

\* C6 (amended): after a successful voice-conversation or text-to-speech
\* request, under fair scheduling of its cleanup task and of time, eventually
\* the generated artifact is absent from the store or the request's cleanup
\* task has ended in a logged error.
C6_EventuallyAbsentOrErred ==
    \A r \in Reqs : \A p \in Paths :
        CleanupPending(r, p) ~> (p \notin files \/ CleanupErred(r, p))

C6_Witness ==
    \E r \in Reqs : \E p \in Paths :
        /\ Generated(r, p)
        /\ \E i \in TasksOf(r, {"cleanup_temp_file"}) : bg[r][i].result = "removed"
        /\ age[r] >= CleanupDelay
        /\ p \notin files

\* C7 (as claimed): a successful voice-conversation request has, besides its
\* cleanup task, exactly one log_usage_analytics or log_conversation task.
C7_OneLogTask ==
    \A r \in Reqs :
        (Voice(r) /\ Completed(r)) =>
            Cardinality(TasksOf(r, {"log_usage_analytics", "log_conversation"})) = 1

\* C8 (as claimed): on every endpoint, a request that has ended with a
\* failure response has added no background task.
C8_NoTaskOnFailure ==
    \A r \in Reqs : Failed(r) => bg[r] = <<>>

\* C9 (as claimed): a voice-conversation request whose upload has no audio
\* content type invokes no backend operation and ends in failure.
C9_VoiceRejectsNonAudio ==
    \A r \in Reqs :
        (Voice(r) /\ ~IsAudio(request[r].content_type)) =>
            /\ log[r] = <<>>
            /\ Failed(r)

\* C10: a speech-to-text request whose upload has a content type that does
\* not start with "audio/" has ended in failure with transcribe never
\* invoked and no task added.
C10_SpeechToTextRejectsNonAudio ==
    \A r \in Reqs :
        (endpoint[r] = "speech-to-text" /\ ~IsAudio(request[r].content_type)) =>
            /\ ~Invoked(r, "transcribe")
            /\ bg[r] = <<>>
            /\ Failed(r)

C10_Witness ==
    \E r \in Reqs :
        /\ endpoint[r] = "speech-to-text"
        /\ request[r].content_type = <<"text", "plain">>
        /\ Failed(r)

\* C11 (as claimed): a speech-to-text request that has ended is answered
\* with status 400 when its upload has a content type that is not audio, and
\* with status 500 when transcribe failed.
C11_StatusByFailureKind ==
    \A r \in Reqs :
        (endpoint[r] = "speech-to-text" /\ pc[r] = "done") =>
            /\ (/\ request[r].content_type # NoContentType
                /\ ~StartsWithAudio(request[r].content_type))
                   => response[r].status = STATUS_BAD_REQUEST
            /\ Events(r, "transcribe", "fail") # {}
                   => response[r].status = STATUS_ERROR

\* C12: a failure inside a background task is swallowed.  In every step, a
\* task that has ended stays as it ended (it is not run again), and a task
\* that meets an exception ends normally, in its except clause, while the
\* response of every request and the position of every handler stay as they
\* were.
C12_TaskFailureSwallowed ==
    [][\A r \in Reqs : \A i \in 1..Len(bg[r]) :
          /\ bg[r][i].st = "done" => bg'[r][i] = bg[r][i]
          /\ (bg[r][i].result = None /\ bg'[r][i].result \in Errors) =>
                 /\ bg'[r][i].st = "done"
                 /\ response' = response
                 /\ pc' = pc]_vars

C12_Witness ==
    \E r, q \in Reqs :
        /\ Completed(r) /\ Completed(q)
        /\ \E i \in TasksOf(r, {"log_usage_analytics", "log_conversation"}) :
               Erred(bg[r][i])
        /\ \E j \in TasksOf(q, {"cleanup_temp_file"}) : Erred(bg[q][j])

\* C13: background tasks stay off the response path.  In every step, a task
\* that is added is added pending, not yet started, by a handler that returns
\* in that same step without any time spent waiting for it, and a task takes
\* a step only when the response of its request has been sent.
C13_TasksOffResponsePath ==
    [][\A r \in Reqs :
          /\ \A i \in 1..Len(bg'[r]) :
                 i > Len(bg[r]) =>
                     /\ bg'[r][i].st = "pending"
                     /\ bg'[r][i].slept = 0
                     /\ pc[r] # "done" /\ pc'[r] = "done"
                     /\ age'[r] = 0
          /\ \A i \in 1..Len(bg[r]) :
                 bg'[r][i] # bg[r][i] => Sent(r)]_vars

C13_Witness ==
    \E r \in Reqs :
        /\ Completed(r)
        /\ endpoint[r] \in {"text-to-speech", "voice-conversation"}
        /\ \E i \in TasksOf(r, {"cleanup_temp_file"}) :
               bg[r][i].st = "sleeping" /\ bg[r][i].slept < CleanupDelay

\* Every task of r has run to its end
Ran(r) == \A i \in 1..Len(bg[r]) : bg[r][i].st = "done" /\ bg[r][i].result # None

\* C14: a failure in one task leaves the other tasks alone.  Under fair
\* scheduling of the tasks and of time, whatever happens to the tasks of the
\* other requests, once the response of a request is sent every task added
\* for it eventually runs to its end, and a task that has ended never runs
\* again.
C14_EveryTaskRunsOnce ==
    /\ \A r \in Reqs : Sent(r) ~> Ran(r)
    /\ [][\A r \in Reqs : \A i \in 1..Len(bg[r]) :
            bg[r][i].st = "done" =>
                bg'[r][i].st = "done" /\ bg'[r][i].result = bg[r][i].result]_vars

C14_Witness ==
    \E r, q \in Reqs :
        /\ r # q
        /\ Sent(r) /\ Sent(q)
        /\ \E i \in 1..Len(bg[r]) : Erred(bg[r][i])
        /\ \E j \in 1..Len(bg[q]) : bg[q][j].st = "done" /\ bg[q][j].result = "removed"

\* C15: deletion is idempotent.  In every step, a cleanup task that wakes up
\* and finds its path absent ends there, without an error and without
\* touching the store; and whenever a cleanup task ends while its path is
\* absent (a second run after a first one removed the file), it ends
\* normally and the store is as it was.
C15_DeletionIdempotent ==
    [][\A r \in Reqs : \A i \in TasksOf(r, {"cleanup_temp_file"}) :
          bg[r][i].arg \notin files =>
              /\ (bg[r][i].st = "sleeping" /\ bg'[r][i].st # "sleeping") =>
                     /\ bg'[r][i] = Finished(bg[r][i], "absent")
                     /\ files' = files
              /\ (/\ bg[r][i].st \in {"sleeping", "removing"}
                  /\ bg'[r][i].st \notin {"sleeping", "removing"}) =>
                     /\ bg'[r][i].st = "done"
                     /\ files' = files]_vars

C15_Witness ==
    \E r, q \in Reqs :
        /\ r # q
        /\ \E i \in TasksOf(r, {"cleanup_temp_file"}) :
           \E j \in TasksOf(q, {"cleanup_temp_file"}) :
               /\ bg[r][i].arg = bg[q][j].arg
               /\ bg[r][i].result = "removed"
               /\ bg[q][j].result = "absent"
               /\ bg[r][i].arg \notin files

\* C16: one deletion event per artifact.  In every step that ends the
\* os.remove of a cleanup task, the task ends normally; it reports the file
\* removed exactly when that step took an existing file out of the store; and
\* otherwise (the file was removed by the other task after both had seen it
\* exist, or the operating system refused) it ends in its except clause with
\* the store as it was.
C16_OneDeletionPerArtifact ==
    [][\A r \in Reqs : \A i \in TasksOf(r, {"cleanup_temp_file"}) :
          (bg[r][i].st = "removing" /\ bg'[r][i].st # "removing") =>
              /\ bg'[r][i].st = "done"
              /\ bg'[r][i].result = "removed" <=>
                     (bg[r][i].arg \in files /\ files' = files \ {bg[r][i].arg})
              /\ bg'[r][i].result # "removed" =>
                     (Erred(bg'[r][i]) /\ files' = files)]_vars

\* Two cleanup tasks of one path have raced: both saw the file exist, one
\* removed it and the other's os.remove found it gone
C16_Witness ==
    \E r, q \in Reqs :
        /\ r # q
        /\ \E i \in TasksOf(r, {"cleanup_temp_file"}) :
           \E j \in TasksOf(q, {"cleanup_temp_file"}) :
               /\ bg[r][i].arg = bg[q][j].arg
               /\ bg[r][i].result = "removed"
               /\ bg[q][j].st = "done"
               /\ bg[q][j].result = "FileNotFoundError"
               /\ bg[r][i].arg \notin files

\* C17 (as claimed): the artifact a successful text-to-speech or
\* voice-conversation response refers to is in the store from the moment the
\* response is sent until its scheduled deletion, that is, as long as fewer
\* than CleanupDelay seconds have passed since the response and the cleanup
\* task of that request has not fired.
C17_ArtifactValidUntilOwnCleanup ==
    \A r \in Reqs :
        (Completed(r) /\ endpoint[r] \in {"text-to-speech", "voice-conversation"}) =>
            \A i \in TasksOf(r, {"cleanup_temp_file"}) :
                (/\ age[r] < CleanupDelay
                 /\ bg[r][i].st \in {"pending", "sleeping"}
                 /\ ~SleepOver(bg[r][i])) =>
                    bg[r][i].arg \in files

\* The positions of the history of id that hold the turn of request r
TurnsOf(r, id) == {n \in 1..Len(store[id]) : store[id][n] = Turn(r, conv_args[r])}

\* The call of process_conversation of r has returned a result
HasConversed(r) == Events(r, "converse", "ok") # {}

\* The turn of r is recorded once, in one conversation, and in the one whose
\* id the call passed when it passed one
TurnKept(r) ==
    /\ Cardinality({id \in DOMAIN store : TurnsOf(r, id) # {}}) = 1
    /\ \A id \in DOMAIN store : Cardinality(TurnsOf(r, id)) <= 1
    /\ Get(conv_args[r], "conversation_id", None) # None =>
           TurnsOf(r, conv_args[r].conversation_id) # {}

\* h is an initial part of g
IsPrefix(h, g) == Len(h) <= Len(g) /\ SubSeq(g, 1, Len(h)) = h

C19_FreshAndStableId ==
    \A r \in Reqs :
        (endpoint[r] = "conversation" /\ Completed(r)) =>
            LET id == response[r].body.conversation_id
                context == response[r].body.context
            IN  /\ id \in DOMAIN store
                /\ IF request[r].conversation_id = None
                   THEN store[id][1] = Turn(r, conv_args[r])
                   ELSE id = request[r].conversation_id
                /\ Len(context) > 0
                /\ context[Len(context)] = Turn(r, conv_args[r])
                /\ IsPrefix(context, store[id])

C19_Witness ==
    \E r, q \in Reqs :
        /\ endpoint[r] = "conversation" /\ Completed(r)
        /\ endpoint[q] = "conversation" /\ Completed(q)
        /\ request[r].conversation_id = None
        /\ request[q].conversation_id = response[r].body.conversation_id
        /\ response[q].body.context = <<Turn(r, conv_args[r]), Turn(q, conv_args[q])>>

\* The handler of r is suspended in the await of a backend call
Awaiting(r) == pc[r] \in {"transcribing", "conversing", "synthesizing"}

\* C20 (as claimed): every backend call carries a bounded wait, so that, with
\* time passing and every task scheduled fairly, a request that waits for a
\* backend eventually ends, Completed or Failed, also when the backend never
\* returns.
C20_EveryRequestTerminates ==
    \A r \in Reqs : Awaiting(r) ~> (Completed(r) \/ Failed(r))

\* C21: in every step in which process_conversation returns a result to the
\* conversation endpoint, a result that has a confidence and the other keys
\* is answered with that confidence, and a result that lacks only the
\* confidence is answered successfully with the confidence 0.95.
C21_ConfidenceDefault ==
    [][\A r \in Reqs : \A result \in ConversationResults :
          ai_conversation_conversed(r, TRUE, result) =>
              /\ HasKeys(result, DOMAIN FullConversation) =>
                     /\ Completed(r)'
                     /\ response'[r].body.confidence = result["confidence"]
              /\ DOMAIN result = (DOMAIN FullConversation) \ {"confidence"} =>
                     /\ Completed(r)'
                     /\ response'[r].body.confidence = DefaultConfidence]_vars

C21_Witness ==
    \E r \in Reqs :
        /\ endpoint[r] = "conversation"
        /\ Completed(r)
        /\ response[r].body.confidence = DefaultConfidence
        /\ response[r].body.confidence # FullConversation["confidence"]

\* C22: synthesis is dispatched with the request's own voice, language and
\* speed whenever the request specified them, with the defaults "default",
\* "en" and 1.0 only for the fields it left unspecified, and the
\* voice-conversation flow always synthesizes with "default" and "en".
C22_OwnFieldsOrDefaults ==
    \A r \in Reqs :
        Invoked(r, "synthesize") =>
            /\ endpoint[r] = "text-to-speech" =>
                   /\ synth_args[r].voice =
                          IF request[r].voice = None THEN "default" ELSE request[r].voice
                   /\ synth_args[r].language =
                          IF request[r].language = None THEN "en" ELSE request[r].language
                   /\ synth_args[r].speed =
                          IF request[r].speed = None THEN "1.0" ELSE request[r].speed
            /\ Voice(r) =>
                   /\ synth_args[r].voice = "default"
                   /\ synth_args[r].language = "en"

\* C23: the handlers carry nothing from one request to another.  Every
\* voice-conversation request calls process_conversation with an empty
\* context, the user "voice_user" and no conversation id, whatever the
\* requests before it did; the conversation endpoint passes exactly the
\* message, context, user id and conversation id of its request.
C23_StatelessAcrossRequests ==
    \A r \in Reqs :
        Invoked(r, "converse") =>
            /\ Voice(r) =>
                   /\ DOMAIN conv_args[r] = {"message", "context", "user_id"}
                   /\ conv_args[r].context = EmptyDict
                   /\ conv_args[r].user_id = "voice_user"
            /\ endpoint[r] = "conversation" =>
                   conv_args[r] = [message |-> request[r].message,
                                   context |-> request[r].context,
                                   user_id |-> request[r].user_id,
                                   conversation_id |-> request[r].conversation_id]

\* A voice request has conversed after an earlier one has completed
C23_Witness ==
    \E q, r \in Reqs :
        /\ q < r /\ Voice(q) /\ Voice(r)
        /\ Completed(q)
        /\ HasConversed(r)

\* The lifecycle calls of name that have ended
CallsOf(name) == {i \in 1..Len(lifecycle.calls) : lifecycle.calls[i][1] = name}

\* The number of times name was invoked: the calls that have ended and the
\* one that is awaited
Invocations(name) ==
    Cardinality(CallsOf(name)) + (IF lifecycle.phase = name THEN 1 ELSE 0)

Initializers == {"conversation_engine.initialize", "speech_processor.initialize"}

Cleaners == {"conversation_engine.cleanup", "speech_processor.cleanup"}

\* A startup step has raised
StartupFailed ==
    \E i \in 1..Len(lifecycle.calls) :
        /\ lifecycle.calls[i][1] \in Initializers \cup {"init_database"}
        /\ lifecycle.calls[i][2] = "fail"

\* The process has ended: the server has exited after a failed startup, or
\* shutdown_event was left, by return or by raise
Exited == lifecycle.phase \in {"startup_failed", "stopped", "shutdown_failed"}

\* C24: over a process lifetime whose startup completed, each backend's
\* initialize is invoked exactly once, before any request is handled, and
\* each backend's cleanup is invoked at most once, only at shutdown, and
\* exactly once by the time the process has ended.
C24_InitializeAndCleanupOnce ==
    /\ \A name \in Initializers \cup Cleaners : Invocations(name) <= 1
    /\ (\E r \in Reqs : pc[r] # "idle") =>
           \A name \in Initializers :
               \E i \in CallsOf(name) : lifecycle.calls[i][2] = "ok"
    /\ (\E name \in Cleaners : Invocations(name) > 0) =>
           /\ lifecycle.phase \in Cleaners \cup {"stopped", "shutdown_failed"}
           /\ Quiescent
    /\ (Exited /\ ~StartupFailed) =>
           /\ \A name \in Initializers : Invocations(name) = 1
           /\ \A name \in Cleaners : Invocations(name) = 1

\* The request has one background task, which runs fn
OneTask(r, fn) == Len(bg[r]) = 1 /\ bg[r][1].fn = fn

\* C25: every successful single-stage request has enqueued its background
\* work by the time it returns: a successful speech-to-text request has one
\* task, log_usage_analytics; a successful text-to-speech request has one
\* task, cleanup_temp_file for the path it returns; a successful conversation
\* request has one task, log_conversation.
C25_SingleStageEnqueues ==
    \A r \in Reqs :
        Completed(r) =>
            /\ endpoint[r] = "speech-to-text" => OneTask(r, "log_usage_analytics")
            /\ endpoint[r] = "text-to-speech" =>
                   /\ OneTask(r, "cleanup_temp_file")
                   /\ bg[r][1].arg = response[r].body.path
            /\ endpoint[r] = "conversation" => OneTask(r, "log_conversation")

\* A speech-to-text and a text-to-speech request have returned successfully,
\* their tasks are still to run
C25_Witness ==
    \E q, r \in Reqs :
        /\ endpoint[q] = "speech-to-text" /\ Completed(q)
        /\ endpoint[r] = "text-to-speech" /\ Completed(r)
        /\ bg[q][1].st = "pending"
        /\ bg[r][1].st = "pending"

\* C26: GET /health answers 200 with a body that has a "status" field
\* whatever the two health checks report.  In every step in which a health
\* check returns its report to the handler, healthy or not, the handler goes
\* on: after the first report it awaits the second, and after the second it
\* answers 200 with "status" and with the two reports as they were given.
C26_HealthAlwaysAnswers ==
    [][\A r \in Reqs : \A report \in HealthReports :
          /\ health_check_speech(r, TRUE, report) =>
                 pc'[r] = "conversation_health"
          /\ health_check_conversation(r, TRUE, report) =>
                 /\ Completed(r)'
                 /\ "status" \in DOMAIN response'[r].body
                 /\ response'[r].body.services =
                        [speech_processor |-> services[r].speech_processor,
                         conversation_engine |-> report]]_vars

\* A health request is answered 200 while both backends report trouble
C26_Witness ==
    \E r \in Reqs :
        /\ endpoint[r] = "health"
        /\ Completed(r)
        /\ response[r].body.status = "healthy"
        /\ ~response[r].body.services.speech_processor.ok
        /\ ~response[r].body.services.conversation_engine.ok

\* C27: data flows unchanged through a successful voice-conversation.  In
\* the step in which transcribe_audio returns a text, that text is the message
\* given to process_conversation; in the step in which process_conversation
\* returns a reply, that reply is the text given to synthesize_speech; and in
\* the step in which synthesize_speech returns a path and the request
\* succeeds, the response's transcription and ai_response are those same two
\* values, its audio_url is /static/audio/ followed by the file name of that
\* path, and the cleanup task of the request is to delete that very path.
C27_DataFlowsUnchanged ==
    [][\A r \in Reqs :
          /\ \A result \in TranscribeResults :
                 (voice_transcribed(r, TRUE, result) /\ HasKey(result, "text")) =>
                     conv_args'[r].message = result["text"]
          /\ \A result \in ConversationResults :
                 (voice_conversed(r, TRUE, result) /\ HasKey(result, "response")) =>
                     synth_args'[r].text = result["response"]
          /\ \A path \in Paths :
                 (voice_synthesized(r, TRUE, path) /\ Completed(r)') =>
                     /\ response'[r].body.transcription = conv_args[r].message
                     /\ response'[r].body.ai_response = synth_args[r].text
                     /\ response'[r].body.audio_url =
                            <<"/static/audio/", PathName(path)>>
                     /\ \E i \in 1..Len(bg'[r]) :
                            /\ bg'[r][i].fn = "cleanup_temp_file"
                            /\ bg'[r][i].arg = path
                     /\ \A i \in 1..Len(bg'[r]) :
                            bg'[r][i].fn = "cleanup_temp_file" =>
                                bg'[r][i].arg = path]_vars

\* A voice-conversation has succeeded and its cleanup task is enqueued
C27_Witness ==
    \E r \in Reqs :
        /\ Voice(r) /\ Completed(r)
        /\ response[r].body.transcription = FullTranscription["text"]
        /\ response[r].body.ai_response = FullConversation["response"]
        /\ \E i \in 1..Len(bg[r]) :
               /\ bg[r][i].fn = "cleanup_temp_file"
               /\ response[r].body.audio_url = <<"/static/audio/", PathName(bg[r][i].arg)>>

\* C28: the cleanup of both backends is attempted.  Once the process has
\* ended, speech_processor.cleanup was invoked if conversation_engine.cleanup
\* was, also when the latter raised; and both cleanups were invoked when a
\* startup step (init_database or an initialize) had failed.
C28_CleanupAlwaysAttempted ==
    Exited =>
        /\ Invocations("conversation_engine.cleanup") > 0 =>
               Invocations("speech_processor.cleanup") > 0
        /\ StartupFailed => \A name \in Cleaners : Invocations(name) > 0

\* The launcher has called fn and fn has returned result
Returned(fn, result) == <<fn, result>> \in Range(process.calls)

ServerStarted == Returned("uvicorn.run", "call")

ExitedWith(status) == process.pc = "exited" /\ process.status = status

\* C29: main() starts the server only after validate_environment and then
\* startup_checks have returned True, in that order.  When
\* validate_environment returns False the process exits with status 1 and
\* has neither run startup_checks nor started the server; when startup_checks
\* returns False, which it does when load_config raises, the process exits
\* with status 1 and has not started the server.
C29_ServerOnlyAfterChecks ==
    /\ ServerStarted =>
           SubSeq(process.calls, 1, 3) =
               << <<"validate_environment", "True">>,
                  <<"startup_checks", "True">>,
                  <<"uvicorn.run", "call">> >>
    /\ Returned("validate_environment", "False") =>
           /\ process.calls = << <<"validate_environment", "False">> >>
           /\ ExitedWith(EXIT_FAILURE)
    /\ Returned("startup_checks", "False") =>
           /\ process.calls = << <<"validate_environment", "True">>,
                                 <<"startup_checks", "False">> >>
           /\ ExitedWith(EXIT_FAILURE)
    /\ (process.pc # "none" /\ process.load_config_raises) =>
           /\ ~Returned("startup_checks", "True")
           /\ ~ServerStarted

\* The server runs after both checks have passed
C29_Witness ==
    /\ process.pc = "uvicorn.run"
    /\ ServerStarted
    /\ process.cwd = RequiredPaths
    /\ ~process.load_config_raises

\* The configuration a call of get_config makes
Made == New(config_class(EnvironmentOf(config.environment, config.env)), config.env)

\* C30: get_config returns a configuration of the class selected for the
\* environment, DevelopmentConfig, ProductionConfig or TestingConfig, and
\* Settings for any other name; it returns it only if that configuration
\* passes the checks of validate_configuration, and raises ValueError when it
\* does not pass them, and only then.
C30_ReturnedConfigurationIsValid ==
    /\ config.pc = "returned" =>
           /\ config.result.class =
                  config_class(EnvironmentOf(config.environment, config.env))
           /\ ConfigurationErrors(config.result) = {}
    /\ config.pc = "raised" =>
           /\ config.raised = "ValueError"
           /\ ConfigurationErrors(Made) # {}

====
